---------------------------- MODULE Spec2Model ----------------------------
(***************************************************************************)
(* A model of the cipher-mode framework (lib/js/ciphers/modes.js), of the  *)
(* mode dispatcher get(), and of the EdDSA engine (lib/js/eddsa.js).       *)
(*                                                                         *)
(* Buffers are sequences of bytes; source index i is sequence index i+1.   *)
(* Bytes are ByteBits bits wide, so that whole blocks can be enumerated.    *)
(***************************************************************************)
EXTENDS Integers, Sequences, FiniteSets, TLC

VARIABLES
  cipher,   \* the mode object: the fields of Cipher and of its subclasses
  ret,      \* what the last call on the mode object returned or raised
  hist,     \* the calls since the last successful init (driver's record)
  saved,    \* a finished encryption, kept while its ciphertext is decrypted
  gcall,    \* the last call of get(name, encrypt) and its outcome
  ed,       \* the last calls of the EdDSA engine and their outcomes
  sch       \* the last calls of the Schnorr engine and their outcomes

vars == <<cipher, ret, hist, saved, gcall, ed, sch>>

(***************************************************************************)
(* Bounds of the model.                                                    *)
(***************************************************************************)
\* Most bytes given to update() between an init() and its final().
MaxLen == 3
\* Most init() ... final() rounds on one mode object.
MaxRounds == 2

(***************************************************************************)
(* Bytes and blocks.                                                       *)
(***************************************************************************)
\* ctx.blockSize of the block cipher the mode objects are built on.
BS == 2
ByteBits == 2
Byte == 0 .. 3
\* A byte of Buffer.allocUnsafe() memory that has not been written yet and
\* that the code never reads before writing it (block, state).
Uninit == -1
EMPTY == << >>

Min(a, b) == IF a < b THEN a ELSE b

\* The value of a byte that is read: applying it to memory that was never
\* written is an error of the model, not a value.
ByteVal == [b \in Byte |-> b]

RECURSIVE XorBits(_, _, _)
XorBits(a, b, w) ==
  IF w = 0 THEN 0
  ELSE ((a + b) % 2) + 2 * XorBits(a \div 2, b \div 2, w - 1)

XorTable == [a \in Byte |-> [b \in Byte |-> XorBits(a, b, ByteBits)]]

\* JavaScript's x ^ y on two bytes.
Xor(a, b) == XorTable[a][b]

\* buf[i] as an operand of ^: an index outside the buffer reads undefined,
\* which ^ takes as 0.
Rd(buf, i) == IF (i + 1) \in DOMAIN buf THEN buf[i + 1] ELSE 0

\* The bs bytes buf[pos .. pos + bs).
RdBlock(buf, pos) == [i \in 1 .. BS |-> Rd(buf, pos + i - 1)]

\* buf with blk written at buf[pos .. pos + bs); a write outside a Buffer is
\* dropped.
WrBlock(buf, pos, blk) ==
  [j \in 1 .. Len(buf) |->
     IF (j - 1) \in pos .. (pos + BS - 1) THEN blk[j - pos] ELSE buf[j]]

\* source.copy(target, tpos, spos, spos + n)
BufCopy(source, target, tpos, spos, n) ==
  [j \in 1 .. Len(target) |->
     IF (j - 1) \in tpos .. (tpos + n - 1) /\ (spos + j - tpos) \in DOMAIN source
     THEN source[spos + j - tpos] ELSE target[j]]

\* buf.fill(v, from, to)
BufFill(buf, v, from, to) ==
  [j \in 1 .. Len(buf) |-> IF (j - 1) \in from .. (to - 1) THEN v ELSE buf[j]]

\* buf.slice(start, end) with end counted from the end when negative.
Slice(buf, start, end) ==
  LET e == IF end < 0 THEN (IF Len(buf) + end < 0 THEN 0 ELSE Len(buf) + end)
           ELSE Min(end, Len(buf))
  IN IF e <= start THEN EMPTY ELSE SubSeq(buf, start + 1, e)

\* Buffer.allocUnsafe(n): n bytes that are not written yet.
AllocUnsafe(n) == [j \in 1 .. n |-> Uninit]

\* What the caller finds in a buffer it is handed: the bytes the code wrote
\* and, where it wrote none, what the memory held: g (bs bytes, repeated).
Handed(buf, g) ==
  [j \in 1 .. Len(buf) |->
     IF buf[j] = Uninit THEN g[((j - 1) % BS) + 1] ELSE buf[j]]

HasUninit(buf) == \E j \in 1 .. Len(buf) : buf[j] = Uninit

Zeros(n) == [j \in 1 .. n |-> 0]

AllBlocks == [1 .. BS -> Byte]

RECURSIVE Pow(_, _)
Pow(b, e) == IF e = 0 THEN 1 ELSE b * Pow(b, e - 1)

\* Number of byte values, of block values.
ByteCount == Pow(2, ByteBits)
BlockCount == Pow(ByteCount, BS)

RECURSIVE BlockToInt(_, _)
BlockToInt(blk, n) ==
  IF n = 0 THEN 0 ELSE BlockToInt(blk, n - 1) * ByteCount + ByteVal[blk[n]]

IntToBlock(v) ==
  [i \in 1 .. BS |-> (v \div Pow(ByteCount, BS - i)) % ByteCount]

(***************************************************************************)
(* The block cipher context (ctx): a keyed permutation of the blocks.      *)
(***************************************************************************)
Keys == {1, 2}
NoKey == 0

\* The permutation of the blocks that key selects, and its inverse.
EncTable ==
  [key \in Keys |-> [blk \in AllBlocks |->
     IntToBlock((5 * BlockToInt(blk, BS) + 2 * key + 3) % BlockCount)]]

DecTable ==
  [key \in Keys |-> [blk \in AllBlocks |->
     CHOOSE p \in AllBlocks : EncTable[key][p] = blk]]

\* ctx.encrypt on one block under the key given to ctx.init().
CtxEncrypt(key, blk) == EncTable[key][blk]

\* ctx.decrypt on one block.
CtxDecrypt(key, blk) == DecTable[key][blk]

(***************************************************************************)
(* The mode classes.                                                       *)
(***************************************************************************)
Modes == {"ecb", "cbc", "ctr", "cfb", "ofb"}

\* What a call gives back: a value, or an error with its message.
Ok(op, val) == [op |-> op, kind |-> "ok", val |-> val, msg |-> ""]
Err(op, msg) == [op |-> op, kind |-> "err", val |-> EMPTY, msg |-> msg]

NotInitialized == "Cipher not initialized."
AssertionFailed == "Assertion failed."
BadNoData == "Bad decrypt (no data)."
BadTrailing == "Bad decrypt (trailing bytes)."
BadPadding == "Bad decrypt (padding)."
BadDecrypt == {BadNoData, BadTrailing, BadPadding}

\* new <Mode>Cipher(ctx) / new <Mode>Decipher(ctx): the constructors of
\* Cipher, BlockCipher, BlockDecipher, CTR, CFB and OFB.
Construct(mode, encrypt) ==
  [mode     |-> mode,
   encrypt  |-> encrypt,
   padding  |-> (mode \in {"ecb", "cbc"} /\ ~encrypt),
   chain    |-> (mode = "cbc"),
   ctxKey   |-> NoKey,
   destroys |-> 0,
   block    |-> AllocUnsafe(BS),
   bpos     |-> -1,
   last     |-> EMPTY,
   prev     |-> EMPTY,
   prevRef  |-> "buf",
   ppos     |-> 0,
   state    |-> EMPTY,
   ctr      |-> EMPTY]

\* this.prev[this.ppos + i]. prev is a reference: to the caller's IV, to an
\* input or output buffer (the model keeps the bs bytes at ppos, which no
\* one writes again), or to this.block itself (prevRef = "block"), whose
\* bytes update() goes on writing.
PrevByte(o, i) ==
  IF o.prevRef = "block" THEN Rd(o.block, o.ppos + i) ELSE Rd(o.prev, i)

PrevBlock(o) == [i \in 1 .. BS |-> PrevByte(o, i - 1)]

XorBlock(a, b) == [i \in 1 .. BS |-> Xor(a[i], b[i])]

\* this.prev = buf; this.ppos = pos, where buf is this.block (ref = "block")
\* or another buffer.
SetPrev(o, ref, buf, pos) ==
  [o EXCEPT !.prevRef = ref,
            !.prev = IF ref = "block" THEN EMPTY ELSE Slice(buf, pos, pos + BS),
            !.ppos = pos]

\* BlockCipher._update
BlockCipherUpdate(o, ref, input, ipos, output, opos) ==
  IF o.chain
  THEN LET x   == XorBlock(RdBlock(input, ipos), PrevBlock(o))
           out == WrBlock(output, opos, CtxEncrypt(o.ctxKey, x))
       IN [o |-> SetPrev(o, "buf", out, opos), out |-> out]
  ELSE [o |-> o,
        out |-> WrBlock(output, opos, CtxEncrypt(o.ctxKey, RdBlock(input, ipos)))]

\* BlockDecipher._update
BlockDecipherUpdate(o, ref, input, ipos, output, opos) ==
  IF o.chain
  THEN LET d   == CtxDecrypt(o.ctxKey, RdBlock(input, ipos))
           out == WrBlock(output, opos, XorBlock(d, PrevBlock(o)))
       IN [o |-> SetPrev(o, ref, input, ipos), out |-> out]
  ELSE [o |-> o,
        out |-> WrBlock(output, opos, CtxDecrypt(o.ctxKey, RdBlock(input, ipos)))]

\* An increment of the last byte alone, without carry.
IncrementNoCarry(ctr, i) ==
  IF i < 0 THEN ctr ELSE [ctr EXCEPT ![i + 1] = (@ + 1) % ByteCount]

RECURSIVE Increment(_, _)
\* CTR._increment: the loop from index i down to 0.
Increment(ctr, i) ==
  IF i < 0 THEN ctr
  ELSE IF ctr[i + 1] # ByteCount - 1
       THEN [ctr EXCEPT ![i + 1] = @ + 1]
       ELSE Increment([ctr EXCEPT ![i + 1] = 0], i - 1)

\* CTR._update
CTRUpdate(o, ref, input, ipos, output, opos) ==
  LET st == WrBlock(o.state, 0, CtxEncrypt(o.ctxKey, RdBlock(o.ctr, 0)))
      o1 == [o EXCEPT !.state = st, !.ctr = Increment(o.ctr, Len(o.ctr) - 1)]
  IN [o |-> o1,
      out |-> WrBlock(output, opos,
                [i \in 1 .. BS |-> Xor(Rd(input, ipos + i - 1), Rd(st, i - 1))])]

\* CFB._update
CFBUpdate(o, ref, input, ipos, output, opos) ==
  LET st  == WrBlock(o.state, 0, CtxEncrypt(o.ctxKey, PrevBlock(o)))
      out == WrBlock(output, opos,
               [i \in 1 .. BS |-> Xor(Rd(input, ipos + i - 1), Rd(st, i - 1))])
      o1  == [o EXCEPT !.state = st]
  IN [o |-> IF o.encrypt THEN SetPrev(o1, "buf", out, opos)
            ELSE SetPrev(o1, ref, input, ipos),
      out |-> out]

\* OFB._update
OFBUpdate(o, ref, input, ipos, output, opos) ==
  LET st == WrBlock(o.state, 0, CtxEncrypt(o.ctxKey, RdBlock(o.state, 0)))
  IN [o |-> [o EXCEPT !.state = st],
      out |-> WrBlock(output, opos,
                [i \in 1 .. BS |-> Xor(Rd(input, ipos + i - 1), Rd(st, i - 1))])]

\* this._update(input, ipos, output, opos), by the class of the object.
\* ref = "block" when input is this.block.
ModeUpdate(o, ref, input, ipos, output, opos) ==
  CASE o.mode \in {"ecb", "cbc"} /\ o.encrypt ->
         BlockCipherUpdate(o, ref, input, ipos, output, opos)
    [] o.mode \in {"ecb", "cbc"} /\ ~o.encrypt ->
         BlockDecipherUpdate(o, ref, input, ipos, output, opos)
    [] o.mode = "ctr" -> CTRUpdate(o, ref, input, ipos, output, opos)
    [] o.mode = "cfb" -> CFBUpdate(o, ref, input, ipos, output, opos)
    [] o.mode = "ofb" -> OFBUpdate(o, ref, input, ipos, output, opos)

RECURSIVE UpdateLoop(_, _, _, _, _, _)
\* Cipher.update, the loop "while (ilen >= bs)".
UpdateLoop(o, input, ipos, output, opos, ilen) ==
  IF ilen >= BS
  THEN LET r == ModeUpdate(o, "buf", input, ipos, output, opos)
       IN UpdateLoop(r.o, input, ipos + BS, r.out, opos + BS, ilen - BS)
  ELSE [o |-> o, out |-> output, ipos |-> ipos, ilen |-> ilen]

\* Cipher.update from "const output = Buffer.allocUnsafe(olen)" on.
UpdateTail(o, input, ilen, olen, ipos) ==
  LET output == AllocUnsafe(olen)
      r1 == IF ipos # 0
            THEN ModeUpdate(o, "block", o.block, 0, output, 0)
            ELSE [o |-> o, out |-> output]
      r2 == UpdateLoop(r1.o, input, ipos, r1.out,
                       IF ipos # 0 THEN BS ELSE 0, ilen)
      o3 == IF r2.ilen > 0
            THEN [r2.o EXCEPT !.block = BufCopy(input, @, 0, r2.ipos, r2.ilen)]
            ELSE r2.o
  IN IF ~o.padding
     THEN [o |-> o3, ret |-> Ok("update", r2.out)]
     ELSE [o |-> [o3 EXCEPT !.last = r2.out],
           ret |-> Ok("update", Slice(r2.out, 0, olen - BS))]

\* Cipher.update(input)
CipherUpdate(o, input) ==
  IF o.bpos = -1
  THEN [o |-> o, ret |-> Err("update", NotInitialized)]
  ELSE LET ilen == Len(input)
           olen == ilen - (ilen % BS)
           o1   == [o EXCEPT !.bpos = (o.bpos + ilen) % BS]
       IN IF o.bpos > 0
          THEN LET want == IF BS - o.bpos > ilen THEN ilen ELSE BS - o.bpos
                   o2   == [o1 EXCEPT !.block = BufCopy(input, @, o.bpos, 0, want)]
               IN IF o.bpos + want < BS
                  THEN [o |-> o2, ret |-> Ok("update", EMPTY)]
                  ELSE UpdateTail(o2, input, ilen - want, olen + BS, want)
          ELSE UpdateTail(o1, input, ilen, olen, 0)

\* BlockCipher._final
BlockCipherFinal(o) ==
  LET left  == BS - o.bpos
      block == BufFill(o.block, left, o.bpos, BS)
      r     == BlockCipherUpdate(o, "buf", block, 0, block, 0)
  IN [o |-> [r.o EXCEPT !.prev = EMPTY, !.prevRef = "buf"],
      ret |-> Ok("final", r.out)]

RECURSIVE PadOk(_, _, _, _)
\* BlockDecipher._final, the loop over the last `left` bytes of block.
PadOk(block, end, left, i) ==
  IF i >= left THEN TRUE
  ELSE IF block[end] # left THEN FALSE
       ELSE PadOk(block, end - 1, left, i + 1)

\* BlockDecipher._final looking at the last byte of the padding only.
BlockDecipherFinalLastByte(o) ==
  LET o1 == [o EXCEPT !.prev = EMPTY, !.prevRef = "buf"]
  IN IF Len(o.last) = 0
     THEN [o |-> o1, ret |-> Err("final", BadNoData)]
     ELSE LET block == o.last
              o2    == [o1 EXCEPT !.last = EMPTY]
              left  == block[Len(block)]
          IN IF o.bpos # 0
             THEN [o |-> o2, ret |-> Err("final", BadTrailing)]
             ELSE IF left = 0 \/ left > BS
                  THEN [o |-> o2, ret |-> Err("final", BadPadding)]
                  ELSE [o |-> o2,
                        ret |-> Ok("final",
                                   Slice(block, Len(block) - BS, Len(block) - left))]

\* BlockDecipher._final
BlockDecipherFinal(o) ==
  LET o1 == [o EXCEPT !.prev = EMPTY, !.prevRef = "buf"]
  IN IF Len(o.last) = 0
     THEN [o |-> o1, ret |-> Err("final", BadNoData)]
     ELSE LET block == o.last
              o2    == [o1 EXCEPT !.last = EMPTY]
              start == Len(block) - BS
              left  == block[Len(block)]
          IN IF o.bpos # 0
             THEN [o |-> o2, ret |-> Err("final", BadTrailing)]
             ELSE IF left = 0 \/ left > BS
                  THEN [o |-> o2, ret |-> Err("final", BadPadding)]
                  ELSE IF ~PadOk(block, Len(block), left, 0)
                       THEN [o |-> o2, ret |-> Err("final", BadPadding)]
                       ELSE [o |-> o2,
                             ret |-> Ok("final",
                                        Slice(block, start, Len(block) - left))]

\* The partial block of a stream mode: out[i] = block[i] ^ state[i], i < bpos.
StreamOut(o, st) == [i \in 1 .. o.bpos |-> Xor(o.block[i], Rd(st, i - 1))]

\* CTR._final
CTRFinal(o) ==
  LET st == WrBlock(o.state, 0, CtxEncrypt(o.ctxKey, RdBlock(o.ctr, 0)))
  IN [o |-> [o EXCEPT !.state = EMPTY, !.ctr = EMPTY],
      ret |-> Ok("final", StreamOut(o, st))]

\* CFB._final
CFBFinal(o) ==
  LET st == WrBlock(o.state, 0, CtxEncrypt(o.ctxKey, PrevBlock(o)))
  IN [o |-> [o EXCEPT !.state = EMPTY, !.prev = EMPTY, !.prevRef = "buf"],
      ret |-> Ok("final", StreamOut(o, st))]

\* OFB._final
OFBFinal(o) ==
  LET st == WrBlock(o.state, 0, CtxEncrypt(o.ctxKey, RdBlock(o.state, 0)))
  IN [o |-> [o EXCEPT !.state = EMPTY],
      ret |-> Ok("final", StreamOut(o, st))]

\* this._final(), by the class of the object.
ModeFinal(o) ==
  CASE o.mode \in {"ecb", "cbc"} /\ o.encrypt -> BlockCipherFinal(o)
    [] o.mode \in {"ecb", "cbc"} /\ ~o.encrypt -> BlockDecipherFinal(o)
    [] o.mode = "ctr" -> CTRFinal(o)
    [] o.mode = "cfb" -> CFBFinal(o)
    [] o.mode = "ofb" -> OFBFinal(o)

\* The finally block of Cipher.final.
FinalReset(o) ==
  [o EXCEPT !.ctxKey = NoKey,
            !.destroys = @ + 1,
            !.block = Zeros(BS),
            !.bpos = -1,
            !.last = EMPTY]

\* Cipher.final() with the reset after _final() instead of in a finally
\* block: an error of _final() skips it.
CipherFinalNoFinally(o) ==
  IF o.bpos = -1
  THEN [o |-> o, ret |-> Err("final", NotInitialized)]
  ELSE LET r == ModeFinal(o)
       IN [o |-> IF r.ret.kind = "ok" THEN FinalReset(r.o) ELSE r.o, ret |-> r.ret]

\* Cipher.final()
CipherFinal(o) ==
  IF o.bpos = -1
  THEN [o |-> o, ret |-> Err("final", NotInitialized)]
  ELSE LET r == ModeFinal(o)
       IN [o |-> FinalReset(r.o), ret |-> r.ret]

\* this._init(key, iv), by the class of the object: the IV length the class
\* asserts, and the fields it sets when the assertion holds.
ModeInit(o, key, iv) ==
  LET want == IF o.mode = "ecb" THEN 0 ELSE BS
  IN IF Len(iv) # want
     THEN [o |-> o, ret |-> Err("init", AssertionFailed)]
     ELSE [o |-> CASE o.mode \in {"ecb", "cbc"} -> SetPrev(o, "buf", iv, 0)
                   [] o.mode = "ctr" ->
                        [o EXCEPT !.state = AllocUnsafe(BS), !.ctr = iv]
                   [] o.mode = "cfb" ->
                        SetPrev([o EXCEPT !.state = AllocUnsafe(BS)], "buf", iv, 0)
                   [] o.mode = "ofb" -> [o EXCEPT !.state = iv],
           ret |-> Ok("init", EMPTY)]

\* Cipher.init(key, iv)
CipherInit(o, key, iv) ==
  ModeInit([o EXCEPT !.ctxKey = key, !.bpos = 0, !.last = EMPTY],
           key, iv)

(***************************************************************************)
(* get(name, encrypt). A name is a sequence of characters.                 *)
(***************************************************************************)
\* Most characters of a name given to get().
MaxName == 3

LowerChars == {"e", "c", "b", "t", "r", "f", "o"}
UpperChars == {"E", "C", "B", "T", "R", "F", "O"}
Chars == LowerChars \cup UpperChars \cup {"x"}

RECURSIVE NamesUpTo(_)
NamesUpTo(n) ==
  IF n = 0 THEN {EMPTY}
  ELSE LET s == NamesUpTo(n - 1)
       IN s \cup {Append(x, c) : x \in {y \in s : Len(y) = n - 1}, c \in Chars}

Names == NamesUpTo(MaxName)

NoCall == [name |-> EMPTY, encrypt |-> TRUE, kind |-> "none", class |-> "none"]

\* The class get() returns for a mode.
ClassOf(mode, encrypt) ==
  CASE mode = "ecb" -> IF encrypt THEN "ECBCipher" ELSE "ECBDecipher"
    [] mode = "cbc" -> IF encrypt THEN "CBCCipher" ELSE "CBCDecipher"
    [] mode = "ctr" -> IF encrypt THEN "CTRCipher" ELSE "CTRDecipher"
    [] mode = "cfb" -> IF encrypt THEN "CFBCipher" ELSE "CFBDecipher"
    [] mode = "ofb" -> IF encrypt THEN "OFBCipher" ELSE "OFBDecipher"

ToLower(c) ==
  CASE c = "E" -> "e" [] c = "C" -> "c" [] c = "B" -> "b" [] c = "T" -> "t"
    [] c = "R" -> "r" [] c = "F" -> "f" [] c = "O" -> "o" [] OTHER -> c

ToUpper(c) ==
  CASE c = "e" -> "E" [] c = "c" -> "C" [] c = "b" -> "B" [] c = "t" -> "T"
    [] c = "r" -> "R" [] c = "f" -> "F" [] c = "o" -> "O" [] OTHER -> c

LowerCase(name) == [i \in 1 .. Len(name) |-> ToLower(name[i])]
UpperCase(name) == [i \in 1 .. Len(name) |-> ToUpper(name[i])]

\* The five mode names, in lower case.
ModeNames ==
  {<<"e", "c", "b">>, <<"c", "b", "c">>, <<"c", "t", "r">>,
   <<"c", "f", "b">>, <<"o", "f", "b">>}

\* The mode a lower-case mode name names.
ModeOf(lower) ==
  CASE lower = <<"e", "c", "b">> -> "ecb"
    [] lower = <<"c", "b", "c">> -> "cbc"
    [] lower = <<"c", "t", "r">> -> "ctr"
    [] lower = <<"c", "f", "b">> -> "cfb"
    [] lower = <<"o", "f", "b">> -> "ofb"

GetOk(mode, encrypt) == [kind |-> "ok", class |-> ClassOf(mode, encrypt)]
GetUnknown == [kind |-> "err", class |-> "none"]

\* get() lower-casing the name before the switch.
GetLowerCased(name, encrypt) ==
  IF LowerCase(name) \in ModeNames
  THEN GetOk(ModeOf(LowerCase(name)), encrypt)
  ELSE GetUnknown

\* get(name, encrypt): the switch over the ten case labels.
Get(name, encrypt) ==
  CASE name = <<"e", "c", "b">> \/ name = <<"E", "C", "B">> -> GetOk("ecb", encrypt)
    [] name = <<"c", "b", "c">> \/ name = <<"C", "B", "C">> -> GetOk("cbc", encrypt)
    [] name = <<"c", "t", "r">> \/ name = <<"C", "T", "R">> -> GetOk("ctr", encrypt)
    [] name = <<"c", "f", "b">> \/ name = <<"C", "F", "B">> -> GetOk("cfb", encrypt)
    [] name = <<"o", "f", "b">> \/ name = <<"O", "F", "B">> -> GetOk("ofb", encrypt)
    [] OTHER -> GetUnknown

(***************************************************************************)
(* The EdDSA engine on a curve whose group is Z_n x Z_h: n the prime order *)
(* of the base point, h = 2^hc the cofactor. A point is <<u, v>>.          *)
(***************************************************************************)
\* curve.size: bytes of an encoded point, field element or scalar.
EdSize == 1
\* curve.n
EdN == 5
\* curve.hc
EdHC == 1
EdCofactor == Pow(2, EdHC)
\* The values of a byte of a key or a signature (four bits).
EdByte == 0 .. 15
\* ctx == null, ph == null
EdNull == <<-1>>
PhNull == -1

EdG == <<1, 0>>
PAdd(P, Q) == <<(P[1] + Q[1]) % EdN, (P[2] + Q[2]) % EdCofactor>>
PMul(P, k) == <<(P[1] * k) % EdN, (P[2] * k) % EdCofactor>>

RECURSIVE PDbl(_, _)
\* P doubled k times.
PDbl(P, k) == IF k = 0 THEN P ELSE PDbl(PAdd(P, P), k - 1)

\* point.encode()
EncodePoint(P) == <<P[1] * EdCofactor + P[2]>>

\* curve.decodePoint(raw): throws unless raw encodes a point.
DecodePoint(raw) ==
  IF Len(raw) = EdSize /\ raw[1] < EdN * EdCofactor
  THEN [ok |-> TRUE, P |-> <<raw[1] \div EdCofactor, raw[1] % EdCofactor>>]
  ELSE [ok |-> FALSE, P |-> <<0, 0>>]

\* curve.decodeInt(raw), curve.decodeScalar(raw), curve.encodeInt(x)
DecodeInt(raw) == IF Len(raw) = 0 THEN 0 ELSE raw[1]
DecodeScalar(raw) == IF Len(raw) = 0 THEN 0 ELSE raw[1]
EncodeInt(x) == <<x>>

\* curve.clamp(raw): the low hc bits and the top bit cleared, the bit below
\* the top one set.
Clamp(raw) == <<(((raw[1] \div EdCofactor) * EdCofactor) % 4) + 4>>

RECURSIVE Mix(_, _)
\* The hash function, on the bytes given to its update() calls.
Mix(bytes, acc) ==
  IF bytes = EMPTY THEN acc
  ELSE Mix(Tail(bytes), (acc * 31 + Head(bytes) + 7) % 251)

\* EDDSA.hashKey: hash.digest(secret, 2 * size)
HashKey(secret) == <<Mix(secret, 3) % 16, Mix(secret, 5) % 16>>

\* curve.splitHash(hash): the clamped scalar and the nonce.
SplitHash(hash) ==
  [key |-> Clamp(SubSeq(hash, 1, EdSize)),
   nonce |-> SubSeq(hash, EdSize + 1, 2 * EdSize)]

\* curve.prefix
EdPrefix == <<9>>

\* EDDSA.hashInt(ph, ctx, ...items) on a curve with (context) or without
\* a built-in context; items: the items' bytes, in order.
HashInt(context, ph, ctx, items) ==
  IF context \/ ph # PhNull
  THEN LET flag == IF ph = 1 THEN 1 ELSE 0
           dom  == IF ctx # EdNull
                   THEN EdPrefix \o <<flag, Len(ctx)>> \o ctx
                   ELSE EdPrefix \o <<flag, 0>>
       IN [ok |-> TRUE, val |-> Mix(dom \o items, 1) % EdN]
  ELSE IF ctx # EdNull
       THEN [ok |-> FALSE, val |-> 0]
       ELSE [ok |-> TRUE, val |-> Mix(items, 1) % EdN]

RECURSIVE PowMod(_, _, _)
PowMod(b, e, m) == IF e = 0 THEN 1 % m ELSE (b * PowMod(b, e - 1, m)) % m

\* b.finvm(n): the Fermat inverse b^(n - 2) mod n.
Finvm(b, n) == PowMod(b, n - 2, n)

\* EDDSA.publicKeyFromScalar
PublicKeyFromScalar(scalar) ==
  EncodePoint(PMul(EdG, DecodeScalar(scalar) % EdN))

\* EDDSA.privateKeyConvert
PrivateKeyConvert(secret) == SplitHash(HashKey(secret)).key

\* EDDSA.publicKeyCreate
PublicKeyCreate(secret) == PublicKeyFromScalar(PrivateKeyConvert(secret))

\* curve.encodeScalar(s)
EncodeScalar(x) == <<x>>

\* EDDSA.scalarTweakAdd: raises 'Invalid scalar.' when the sum is zero.
ScalarTweakAdd(scalar, tweak) ==
  LET s == (DecodeScalar(scalar) + DecodeScalar(tweak)) % EdN
  IN IF s = 0 THEN [kind |-> "err", val |-> EMPTY]
     ELSE [kind |-> "ok", val |-> EncodeScalar(s)]

\* EDDSA.publicKeyTweakAdd returning the tweak point alone.
PublicKeyTweakAddNoKey(key, tweak) ==
  LET A == DecodePoint(key)
  IN IF ~A.ok THEN [kind |-> "err", val |-> EMPTY]
     ELSE [kind |-> "ok",
           val |-> EncodePoint(PMul(EdG, DecodeScalar(tweak) % EdN))]

\* EDDSA.publicKeyTweakAdd
PublicKeyTweakAdd(key, tweak) ==
  LET A == DecodePoint(key)
  IN IF ~A.ok THEN [kind |-> "err", val |-> EMPTY]
     ELSE [kind |-> "ok",
           val |-> EncodePoint(PAdd(PMul(EdG, DecodeScalar(tweak) % EdN), A.P))]

SignOk(sig) == [kind |-> "ok", sig |-> sig]
SignErr == [kind |-> "err", sig |-> EMPTY]

\* The S of signWithScalar multiplied by b again instead of by b^-1.
BlindedSNoInverse(r, h, a, b) ==
  LET ha == (((h * b) % EdN) * a) % EdN
  IN (((((r * b) % EdN) + ha) % EdN) * b) % EdN

\* The S of signWithScalar: ((r * b + h * b * a) * b^-1) mod n.
BlindedS(r, h, a, b) ==
  LET bi == Finvm(b, EdN)
      ha == (((h * b) % EdN) * a) % EdN
  IN (((((r * b) % EdN) + ha) % EdN) * bi) % EdN

\* signWithScalar leaving the blinding factor in S.
SignWithScalarStillBlinded(context, msg, scalar, nonce, ph, ctx, b) ==
  LET a == DecodeScalar(scalar)
      A == EncodePoint(PMul(EdG, a))
      r == HashInt(context, ph, ctx, nonce \o msg)
      R == EncodePoint(PMul(EdG, r.val))
      h == HashInt(context, ph, ctx, R \o A \o msg)
  IN IF Len(nonce) # EdSize \/ ~r.ok \/ ~h.ok THEN SignErr
     ELSE SignOk(R \o EncodeInt((((r.val * b) % EdN)
                                  + ((((h.val * b) % EdN) * a) % EdN)) % EdN))

\* EDDSA.signWithScalar; b is the blinding factor BN.random(rng, 1, N).
SignWithScalar(context, msg, scalar, nonce, ph, ctx, b) ==
  LET a == DecodeScalar(scalar)
      A == EncodePoint(PMul(EdG, a))
      r == HashInt(context, ph, ctx, nonce \o msg)
      R == EncodePoint(PMul(EdG, r.val))
      h == HashInt(context, ph, ctx, R \o A \o msg)
  IN IF Len(nonce) # EdSize \/ ~r.ok \/ ~h.ok THEN SignErr
     ELSE SignOk(R \o EncodeInt(BlindedS(r.val, h.val, a, b)))

\* EDDSA.sign
EdSign(context, msg, secret, ph, ctx, b) ==
  LET kn == SplitHash(HashKey(secret))
  IN SignWithScalar(context, msg, kn.key, kn.nonce, ph, ctx, b)

Returned(val) == [threw |-> FALSE, val |-> val]
Threw == [threw |-> TRUE, val |-> FALSE]

\* EDDSA._verify without the comparison of S with n.
EdVerifyInnerAnyS(context, msg, sig, key, ph, ctx) ==
  LET Rraw == Slice(sig, 0, EdSize)
      Sraw == Slice(sig, EdSize, Len(sig))
      R == DecodePoint(Rraw)
      S == DecodeInt(Sraw)
      A == DecodePoint(key)
      h == HashInt(context, ph, ctx, Rraw \o key \o msg)
  IN IF ~R.ok \/ ~A.ok THEN Threw
     ELSE IF ~h.ok THEN Threw
          ELSE Returned(PDbl(PMul(EdG, S), EdHC)
                          = PDbl(PAdd(R.P, PMul(A.P, h.val)), EdHC))

\* EDDSA._verify
EdVerifyInner(context, msg, sig, key, ph, ctx) ==
  LET Rraw == Slice(sig, 0, EdSize)
      Sraw == Slice(sig, EdSize, Len(sig))
      R == DecodePoint(Rraw)
      S == DecodeInt(Sraw)
      A == DecodePoint(key)
      h == HashInt(context, ph, ctx, Rraw \o key \o msg)
  IN IF ~R.ok \/ ~A.ok THEN Threw
     ELSE IF S >= EdN THEN Returned(FALSE)
          ELSE IF ~h.ok THEN Threw
               ELSE Returned(PDbl(PMul(EdG, S), EdHC)
                               = PDbl(PAdd(R.P, PMul(A.P, h.val)), EdHC))

VerifyOk(val) == [kind |-> "ok", val |-> val]
VerifyErr == [kind |-> "err", val |-> FALSE]

\* EDDSA.verify asserting the lengths instead of returning false.
EdVerifyAssertLengths(context, msg, sig, key, ph, ctx) ==
  IF ~context /\ ctx # EdNull /\ ph = PhNull THEN VerifyErr
  ELSE IF Len(sig) # EdSize * 2 \/ Len(key) # EdSize THEN VerifyErr
       ELSE LET r == EdVerifyInner(context, msg, sig, key, ph, ctx)
            IN IF r.threw THEN VerifyOk(FALSE) ELSE VerifyOk(r.val)

\* EDDSA.verify
EdVerify(context, msg, sig, key, ph, ctx) ==
  IF ~context /\ ctx # EdNull /\ ph = PhNull THEN VerifyErr
  ELSE IF Len(sig) # EdSize * 2 THEN VerifyOk(FALSE)
       ELSE IF Len(key) # EdSize THEN VerifyOk(FALSE)
            ELSE LET r == EdVerifyInner(context, msg, sig, key, ph, ctx)
                 IN IF r.threw THEN VerifyOk(FALSE) ELSE VerifyOk(r.val)

NoSign ==
  [op |-> "none", msg |-> EMPTY, secret |-> EMPTY, ph |-> PhNull, ctx |-> EdNull,
   b |-> 0, kind |-> "none", sig |-> EMPTY]

NoVerify ==
  [op |-> "none", msg |-> EMPTY, sig |-> EMPTY, key |-> EMPTY, ph |-> PhNull,
   ctx |-> EdNull, kind |-> "none", val |-> FALSE]

\* An item of a batch: [msg, sig, key], or something else.
Entry(msg, sig, key) == [shape |-> "triple", msg |-> msg, sig |-> sig, key |-> key]
Malformed == [shape |-> "other", msg |-> EMPTY, sig |-> EMPTY, key |-> EMPTY]

\* The result of a batchVerify call, with the number of BN.random draws and
\* of point multiplications it made.
BatchOk(val, draws, muls) ==
  [kind |-> "ok", val |-> val, draws |-> draws, muls |-> muls]
BatchErr == [kind |-> "err", val |-> FALSE, draws |-> 0, muls |-> 0]
BatchThrew(draws, muls) ==
  [kind |-> "threw", val |-> FALSE, draws |-> draws, muls |-> muls]

RECURSIVE EdBatchCheck(_, _)
\* EDDSA.batchVerify: the loop over the items, from item i on.
EdBatchCheck(batch, i) ==
  IF i > Len(batch) THEN "pass"
  ELSE IF batch[i].shape # "triple" THEN "raise"
       ELSE IF Len(batch[i].sig) # EdSize * 2 THEN "false"
            ELSE IF Len(batch[i].key) # EdSize THEN "false"
                 ELSE EdBatchCheck(batch, i + 1)

RECURSIVE EdBatchLoop(_, _, _, _, _, _, _, _, _)
\* EDDSA._batchVerify: the loop from item i on; first: lhs === null;
\* rnd[i]: the value BN.random(rng, 1, N) returns for item i.
EdBatchLoop(context, batch, ph, ctx, rnd, i, first, lhs, rhs) ==
  IF i > Len(batch)
  THEN IF first THEN BatchOk(TRUE, 0, 0)
       ELSE BatchOk(PMul(EdG, lhs) = rhs, Len(batch) - 1, 2 * Len(batch))
  ELSE LET Rraw == Slice(batch[i].sig, 0, EdSize)
           Sraw == Slice(batch[i].sig, EdSize, Len(batch[i].sig))
           R == DecodePoint(Rraw)
           S == DecodeInt(Sraw)
           A == DecodePoint(batch[i].key)
           e == HashInt(context, ph, ctx, Rraw \o batch[i].key \o batch[i].msg)
           a == rnd[i]
           ae == (a * e.val) % EdN
           draws == IF i = 1 THEN 0 ELSE i - 2
           muls == IF i = 1 THEN 0 ELSE 2 * i - 3
       IN IF ~R.ok \/ ~A.ok THEN BatchThrew(draws, muls)
          ELSE IF S >= EdN THEN BatchOk(FALSE, draws, muls)
          ELSE IF ~e.ok THEN BatchThrew(draws, muls)
          ELSE IF first
               THEN EdBatchLoop(context, batch, ph, ctx, rnd, i + 1, FALSE,
                                S, PAdd(R.P, PMul(A.P, e.val)))
               ELSE EdBatchLoop(context, batch, ph, ctx, rnd, i + 1, FALSE,
                                (lhs + a * S) % EdN,
                                PAdd(rhs, PAdd(PMul(R.P, a), PMul(A.P, ae))))

\* EDDSA._batchVerify without the return of true when lhs is null:
\* G.mul(null) throws.
EdBatchInnerNoNullCheck(context, batch, ph, ctx, rnd) ==
  IF batch = <<>> THEN BatchThrew(0, 0)
  ELSE EdBatchLoop(context, batch, ph, ctx, rnd, 1, TRUE, 0, <<0, 0>>)

\* EDDSA._batchVerify
EdBatchInner(context, batch, ph, ctx, rnd) ==
  EdBatchLoop(context, batch, ph, ctx, rnd, 1, TRUE, 0, <<0, 0>>)

\* EDDSA.batchVerify without the try/catch around _batchVerify.
EdBatchVerifyNoCatch(context, batch, ph, ctx, rnd) ==
  IF ~context /\ ctx # EdNull /\ ph = PhNull THEN BatchErr
  ELSE LET chk == EdBatchCheck(batch, 1)
       IN IF chk = "raise" THEN BatchErr
          ELSE IF chk = "false" THEN BatchOk(FALSE, 0, 0)
          ELSE LET r == EdBatchInner(context, batch, ph, ctx, rnd)
               IN IF r.kind = "threw" THEN BatchErr ELSE r

\* EDDSA.batchVerify
EdBatchVerify(context, batch, ph, ctx, rnd) ==
  IF ~context /\ ctx # EdNull /\ ph = PhNull THEN BatchErr
  ELSE LET chk == EdBatchCheck(batch, 1)
       IN IF chk = "raise" THEN BatchErr
          ELSE IF chk = "false" THEN BatchOk(FALSE, 0, 0)
          ELSE LET r == EdBatchInner(context, batch, ph, ctx, rnd)
               IN IF r.kind = "threw" THEN BatchOk(FALSE, r.draws, r.muls)
                  ELSE r

NoBatch ==
  [op |-> "none", batch |-> <<>>, ph |-> PhNull, ctx |-> EdNull, rnd |-> <<>>,
   kind |-> "none", val |-> FALSE, draws |-> 0, muls |-> 0]

NoTweak ==
  [op |-> "none", scalar |-> EMPTY, tweak |-> EMPTY, kind |-> "none",
   val |-> EMPTY, pub |-> EMPTY, tkind |-> "none", tpub |-> EMPTY]

NoEd ==
  [context |-> FALSE, sgn |-> NoSign, ver |-> NoVerify, bat |-> NoBatch,
   twk |-> NoTweak]

(***************************************************************************)
(* The Schnorr engine on a short Weierstrass curve y^2 = x^3 + a*x + b     *)
(* over the integers mod p, of prime order n. A point is <<x, y>>.         *)
(***************************************************************************)
\* curve.p, curve.n, curve.a, curve.b
SchP == 7
SchN == 13
SchA == 0
SchB == 3
\* curve.size and hash.size, in bytes
SchSize == 1
SchHashSize == 1
\* The values of a byte of a message, key or signature (four bits).
SchByte == 0 .. 15

\* The point at infinity, and curve.g.
Infinity == <<-1, -1>>
SchG == <<1, 2>>

\* x^-1 mod p
InvP(x) == PowMod(x % SchP, SchP - 2, SchP)

\* point.add
WAdd(P, Q) ==
  IF P = Infinity THEN Q
  ELSE IF Q = Infinity THEN P
  ELSE IF P[1] = Q[1] /\ (P[2] + Q[2]) % SchP = 0 THEN Infinity
  ELSE LET l == IF P = Q
                THEN ((3 * P[1] * P[1] + SchA) * InvP(2 * P[2])) % SchP
                ELSE ((Q[2] - P[2] + SchP) * InvP(Q[1] - P[1] + SchP)) % SchP
           x == (l * l + 2 * SchP - P[1] - Q[1]) % SchP
       IN <<x, (l * (P[1] + SchP - x) + SchP - P[2]) % SchP>>

RECURSIVE WMulRec(_, _)
WMulRec(P, k) == IF k = 0 THEN Infinity ELSE WAdd(WMulRec(P, k - 1), P)

\* G.mul(k) / G.mulBlind(k) for k < n
GMulTable == [k \in 0 .. (SchN - 1) |-> WMulRec(SchG, k)]

\* point.mul(k) / point.mulBlind(k)
WMul(P, k) == IF P = SchG THEN GMulTable[k % SchN] ELSE WMulRec(P, k % SchN)

\* y.jacobi(p): 1, -1 or 0, by Euler's criterion.
Jacobi(y, p) ==
  LET e == PowMod(y % p, (p - 1) \div 2, p)
  IN IF e = p - 1 THEN -1 ELSE e

\* point.encode(): the parity of y, then x.
WEncode(P) == <<2 + (P[2] % 2), P[1]>>

\* The right-hand side x^3 + a*x + b of the curve equation.
CurveRhs(x) == (x * x * x + SchA * x + SchB) % SchP

\* c.redSqrt() for p = 3 mod 4: c^((p + 1) / 4).
RedSqrt(c) == PowMod(c, (SchP + 1) \div 4, SchP)

\* curve.decodePoint(raw): throws unless raw is the encoding of a point.
WDecodePoint(raw) ==
  IF /\ Len(raw) = SchSize + 1 /\ raw[1] \in {2, 3} /\ raw[2] < SchP
     /\ (RedSqrt(CurveRhs(raw[2])) * RedSqrt(CurveRhs(raw[2]))) % SchP
          = CurveRhs(raw[2])
  THEN LET y == RedSqrt(CurveRhs(raw[2]))
       IN [ok |-> TRUE,
           P |-> <<raw[2], IF y % 2 = raw[1] - 2 THEN y ELSE (SchP - y) % SchP>>]
  ELSE [ok |-> FALSE, P |-> Infinity]

\* Schnorr.hashInt(...items)
SchHashInt(items) == Mix(items, 1) % SchN

\* The S of Schnorr.sign: ((k * b + e * b * a) * b^-1) mod n.
SchBlindedS(k, e, a, b) ==
  LET bi == Finvm(b, SchN)
      ea == (((e * b) % SchN) * a) % SchN
  IN (((((k * b) % SchN) + ea) % SchN) * bi) % SchN

SchSignOk(sig, kp, k) == [kind |-> "ok", sig |-> sig, kp |-> kp, k |-> k]
SchSignErr(msg) == [kind |-> msg, sig |-> EMPTY, kp |-> 0, k |-> 0]

\* Schnorr.sign negating k when jacobi(y(R)) is 1.
SchSignWrongJacobi(msg, key, b) ==
  IF Len(msg) # SchHashSize \/ Len(key) # SchSize THEN SchSignErr("assert")
  ELSE LET kp == SchHashInt(key \o msg)
           R == WMul(SchG, kp)
           k == IF Jacobi(R[2], SchP) = 1 THEN SchN - kp ELSE kp
           a == DecodeScalar(key)
           Araw == WEncode(WMul(SchG, a))
           Rraw == EncodeInt(R[1])
           e == SchHashInt(Rraw \o Araw \o msg)
       IN IF kp = 0 THEN SchSignErr("k0")
          ELSE IF a = 0 \/ a >= SchN THEN SchSignErr("key")
          ELSE SchSignOk(Rraw \o EncodeInt(SchBlindedS(k, e, a, b)), kp, k)

\* Schnorr.sign; b is the blinding factor BN.random(rng, 1, N). The result
\* also tells k' and k.
SchSign(msg, key, b) ==
  IF Len(msg) # SchHashSize \/ Len(key) # SchSize THEN SchSignErr("assert")
  ELSE LET kp == SchHashInt(key \o msg)
           R == WMul(SchG, kp)
           k == IF Jacobi(R[2], SchP) # 1 THEN SchN - kp ELSE kp
           a == DecodeScalar(key)
           Araw == WEncode(WMul(SchG, a))
           Rraw == EncodeInt(R[1])
           e == SchHashInt(Rraw \o Araw \o msg)
       IN IF kp = 0 THEN SchSignErr("k0")
          ELSE IF a = 0 \/ a >= SchN THEN SchSignErr("key")
          ELSE SchSignOk(Rraw \o EncodeInt(SchBlindedS(k, e, a, b)), kp, k)

SchReturned(val, R) == [threw |-> FALSE, val |-> val, R |-> R]
SchThrew == [threw |-> TRUE, val |-> FALSE, R |-> Infinity]

\* Schnorr._verify; the result also tells the point R it recomputed.
SchVerifyInner(msg, sig, key) ==
  IF Len(msg) # SchHashSize THEN SchReturned(FALSE, Infinity)
  ELSE IF Len(sig) # SchSize * 2 THEN SchReturned(FALSE, Infinity)
  ELSE LET A == WDecodePoint(key)
           Rraw == Slice(sig, 0, SchSize)
           Sraw == Slice(sig, SchSize, Len(sig))
           Rx == DecodeInt(Rraw)
           S == DecodeScalar(Sraw)
           e == SchHashInt(Rraw \o WEncode(A.P) \o msg)
           R == WAdd(WMul(SchG, S), WMul(A.P, SchN - e))
       IN IF ~A.ok THEN SchThrew
          ELSE IF Rx >= SchP \/ S >= SchN THEN SchReturned(FALSE, Infinity)
          ELSE IF R = Infinity THEN SchReturned(FALSE, R)
          ELSE IF Jacobi(R[2], SchP) # 1 THEN SchReturned(FALSE, R)
          ELSE IF R[1] # Rx THEN SchReturned(FALSE, R)
          ELSE SchReturned(TRUE, R)

\* Schnorr.verify
SchVerify(msg, sig, key) ==
  LET r == SchVerifyInner(msg, sig, key)
  IN IF r.threw THEN [kind |-> "ok", val |-> FALSE, R |-> Infinity]
     ELSE [kind |-> "ok", val |-> r.val, R |-> r.R]

RECURSIVE SchBatchCheck(_, _)
\* Schnorr.batchVerify: the loop over the items, from item i on.
SchBatchCheck(batch, i) ==
  IF i > Len(batch) THEN "pass"
  ELSE IF batch[i].shape # "triple" THEN "raise"
       ELSE IF Len(batch[i].msg) # SchHashSize THEN "false"
            ELSE IF Len(batch[i].sig) # SchSize * 2 THEN "false"
                 ELSE SchBatchCheck(batch, i + 1)

RECURSIVE SchBatchLoop(_, _, _, _, _, _)
\* Schnorr._batchVerify: the loop from item i on; first: lhs === null;
\* rnd[i]: the value BN.random(rng, 1, N) returns for item i.
SchBatchLoop(batch, rnd, i, first, lhs, rhs) ==
  IF i > Len(batch)
  THEN IF first THEN BatchOk(TRUE, 0, 0)
       ELSE BatchOk(WMul(SchG, lhs) = rhs, Len(batch) - 1, 2 * Len(batch))
  ELSE LET A == WDecodePoint(batch[i].key)
           Rraw == Slice(batch[i].sig, 0, SchSize)
           Sraw == Slice(batch[i].sig, SchSize, Len(batch[i].sig))
           Rx == DecodeInt(Rraw)
           S == DecodeScalar(Sraw)
           e == SchHashInt(Rraw \o WEncode(A.P) \o batch[i].msg)
           c == CurveRhs(Rx)
           y == RedSqrt(c)
           R == <<Rx, y>>
           a == rnd[i]
           ae == (a * e) % SchN
           draws == IF i = 1 THEN 0 ELSE i - 2
           muls == IF i = 1 THEN 0 ELSE 2 * i - 3
       IN IF ~A.ok THEN BatchThrew(draws, muls)
          ELSE IF Rx >= SchP \/ S >= SchN THEN BatchOk(FALSE, draws, muls)
          ELSE IF c # (y * y) % SchP THEN BatchOk(FALSE, draws, muls)
          ELSE IF first
               THEN SchBatchLoop(batch, rnd, i + 1, FALSE, S,
                                 WAdd(R, WMul(A.P, e)))
               ELSE SchBatchLoop(batch, rnd, i + 1, FALSE,
                                 (lhs + a * S) % SchN,
                                 WAdd(rhs, WAdd(WMul(R, a), WMul(A.P, ae))))

\* Schnorr._batchVerify
SchBatchInner(batch, rnd) == SchBatchLoop(batch, rnd, 1, TRUE, 0, Infinity)

\* Schnorr.batchVerify
SchBatchVerify(batch, rnd) ==
  LET chk == SchBatchCheck(batch, 1)
  IN IF chk = "raise" THEN BatchErr
     ELSE IF chk = "false" THEN BatchOk(FALSE, 0, 0)
     ELSE LET r == SchBatchInner(batch, rnd)
          IN IF r.kind = "threw" THEN BatchOk(FALSE, r.draws, r.muls) ELSE r

NoSchSign ==
  [op |-> "none", msg |-> EMPTY, key |-> EMPTY, b |-> 0, kind |-> "none",
   sig |-> EMPTY, kp |-> 0, k |-> 0]

NoSchVerify ==
  [op |-> "none", msg |-> EMPTY, sig |-> EMPTY, key |-> EMPTY, kind |-> "none",
   val |-> FALSE, R |-> Infinity]

NoSchBatch ==
  [op |-> "none", batch |-> <<>>, rnd |-> <<>>, kind |-> "none", val |-> FALSE,
   draws |-> 0, muls |-> 0]

NoSchnorr == [sgn |-> NoSchSign, ver |-> NoSchVerify, bat |-> NoSchBatch]

(***************************************************************************)
(* The driver of a mode object.                                            *)
(***************************************************************************)
IVs == {EMPTY, <<0, 3>>, <<3, 3>>}

RECURSIVE SeqsUpTo(_)
\* The byte strings of at most n bytes.
SeqsUpTo(n) ==
  IF n = 0 THEN {EMPTY}
  ELSE LET s == SeqsUpTo(n - 1)
       IN s \cup {Append(x, b) : x \in {y \in s : Len(y) = n - 1}, b \in Byte}

AllInputs == [n \in 0 .. MaxLen |-> SeqsUpTo(n)]

\* The driver's record of the calls since init(): whether init() succeeded,
\* since then and without a final() (initOk) or at all (clean), whether
\* final() was called, the bytes given to update(), the number of
\* bytes update() and final() returned and (round-trip driver only) the bytes.
NoHist ==
  [initOk |-> FALSE, clean |-> FALSE, done |-> FALSE, key |-> NoKey, iv |-> EMPTY,
   inp |-> EMPTY, olen |-> 0, outp |-> EMPTY]

NoSaved ==
  [on |-> FALSE, mode |-> "ecb", key |-> NoKey, iv |-> EMPTY,
   pt |-> EMPTY, ct |-> EMPTY]


IsPrefix(a, b) == Len(a) <= Len(b) /\ SubSeq(b, 1, Len(a)) = a

Init ==
  /\ cipher = Construct("ecb", TRUE)
  /\ ret = Ok("new", EMPTY)
  /\ hist = NoHist
  /\ saved = NoSaved
  /\ gcall = NoCall
  /\ sch = NoSchnorr
  /\ ed = NoEd

\* What the memory of a returned buffer can hold where nothing was written.
Garbage(buf) == IF HasUninit(buf) THEN AllBlocks ELSE {Zeros(BS)}

\* The same for the round-trip driver: all zero, or a block of padding.
GarbageRT(buf) ==
  IF HasUninit(buf) THEN {Zeros(BS), [i \in 1 .. BS |-> BS]} ELSE {Zeros(BS)}

\* The driver's record after init(key, iv) returned or raised r.
HistInit(r, key, iv) ==
  [initOk |-> (r.ret.kind = "ok"), clean |-> (r.ret.kind = "ok"), done |-> FALSE,
   key |-> key, iv |-> iv,
   inp |-> EMPTY, olen |-> 0, outp |-> EMPTY]

\* The step of a call update(input) that gave r, with g in the memory of
\* the buffer it returns; keep: the driver keeps the bytes returned.
UpdateStep(input, r, g, keep) ==
  /\ cipher' = [r.o EXCEPT !.last = Handed(@, g)]
  /\ ret' = [r.ret EXCEPT !.val = Handed(@, g)]
  /\ hist' = IF r.ret.kind = "ok"
             THEN [hist EXCEPT !.inp = @ \o input,
                               !.olen = @ + Len(r.ret.val),
                               !.outp = IF keep THEN @ \o Handed(r.ret.val, g)
                                        ELSE @]
             ELSE hist

\* The step of a call final() that gave r.
FinalStep(r, keep) ==
  /\ cipher' = r.o
  /\ ret' = r.ret
  /\ hist' = IF cipher.bpos = -1 THEN hist
             ELSE [hist EXCEPT !.initOk = FALSE, !.done = TRUE,
                               !.olen = @ + Len(r.ret.val),
                               !.outp = IF keep THEN @ \o r.ret.val ELSE @]

(***************************************************************************)
(* Spec: one mode object, called in any order with any arguments.          *)
(***************************************************************************)
\* new Class(ctx) for one of the ten classes, once the object before it is
\* unused or finished.
New ==
  \E mode \in Modes, encrypt \in BOOLEAN :
    /\ cipher.bpos = -1
    /\ cipher' = Construct(mode, encrypt)
    /\ ret' = Ok("new", EMPTY)
    /\ hist' = NoHist
    /\ UNCHANGED <<saved, gcall, ed, sch>>

\* cipher.init(key, iv), on a new object or after final().
DoInit ==
  \E key \in Keys, iv \in IVs :
    /\ cipher.bpos = -1
    /\ cipher.destroys < MaxRounds
    /\ \E r \in {CipherInit(cipher, key, iv)} :
          /\ cipher' = r.o
          /\ ret' = r.ret
          /\ hist' = HistInit(r, key, iv)
    /\ UNCHANGED <<saved, gcall, ed, sch>>

\* cipher.update(input)
DoUpdate ==
  \E input \in AllInputs[MaxLen - Min(MaxLen, Len(hist.inp))] :
    \E r \in {CipherUpdate(cipher, input)} :
      \E g \in Garbage(r.o.last \o r.ret.val) :
        /\ UpdateStep(input, r, g, FALSE)
        /\ UNCHANGED <<saved, gcall, ed, sch>>

\* cipher.final()
DoFinal ==
  /\ \E r \in {CipherFinal(cipher)} : FinalStep(r, FALSE)
  /\ UNCHANGED <<saved, gcall, ed, sch>>

Next == New \/ DoInit \/ DoUpdate \/ DoFinal

Spec == Init /\ [][Next]_vars

(***************************************************************************)
(* SpecRT: a plaintext is encrypted by a cipher object, in pieces, and the *)
(* ciphertext it returned is decrypted by a decipher object of the same    *)
(* mode, key and IV, in pieces.                                            *)
(***************************************************************************)
\* The IVs init() accepts for a mode.
GoodIVs(mode) == {iv \in IVs : Len(iv) = IF mode = "ecb" THEN 0 ELSE BS}

\* new Cipher(ctx)
RTNew ==
  \E mode \in Modes :
    /\ cipher.bpos = -1
    /\ cipher' = Construct(mode, TRUE)
    /\ ret' = Ok("new", EMPTY)
    /\ hist' = NoHist
    /\ saved' = NoSaved
    /\ UNCHANGED <<gcall, ed, sch>>

\* new Decipher(ctx) to decrypt the ciphertext the cipher has just returned.
RTNewDecipher ==
  /\ ~saved.on
  /\ hist.done /\ cipher.encrypt /\ ret.kind = "ok"
  /\ cipher' = Construct(cipher.mode, FALSE)
  /\ ret' = Ok("new", EMPTY)
  /\ hist' = NoHist
  /\ saved' = [on |-> TRUE, mode |-> cipher.mode, key |-> hist.key,
               iv |-> hist.iv, pt |-> hist.inp, ct |-> hist.outp]
  /\ UNCHANGED <<gcall, ed, sch>>

\* init(key, iv): any key and IV for the cipher, the cipher's for the decipher.
RTInit ==
  \E key \in Keys, iv \in GoodIVs(cipher.mode) :
    /\ cipher.bpos = -1 /\ ~hist.done
    /\ saved.on => (key = saved.key /\ iv = saved.iv)
    /\ \E r \in {CipherInit(cipher, key, iv)} :
          /\ cipher' = r.o
          /\ ret' = r.ret
          /\ hist' = HistInit(r, key, iv)
    /\ UNCHANGED <<saved, gcall, ed, sch>>

\* The pieces the driver gives to update(), none of them empty: any bytes
\* within the bound for the cipher, a next piece of the ciphertext for the
\* decipher.
Pieces ==
  IF saved.on
  THEN {SubSeq(saved.ct, Len(hist.inp) + 1, Len(hist.inp) + k) :
          k \in 1 .. (Len(saved.ct) - Len(hist.inp))}
  ELSE AllInputs[MaxLen - Min(MaxLen, Len(hist.inp))] \ {EMPTY}

\* update(piece)
RTUpdate ==
  /\ hist.initOk
  /\ \E input \in Pieces :
       \E r \in {CipherUpdate(cipher, input)} :
         \E g \in GarbageRT(r.o.last \o r.ret.val) :
           /\ UpdateStep(input, r, g, TRUE)
           /\ UNCHANGED <<saved, gcall, ed, sch>>

\* final(), once the decipher has been given the whole ciphertext.
RTFinal ==
  /\ hist.initOk
  /\ saved.on => hist.inp = saved.ct
  /\ \E r \in {CipherFinal(cipher)} : FinalStep(r, TRUE)
  /\ UNCHANGED <<saved, gcall, ed, sch>>

NextRT == RTNew \/ RTNewDecipher \/ RTInit \/ RTUpdate \/ RTFinal

SpecRT == Init /\ [][NextRT]_vars

(***************************************************************************)
(* SpecGet: one call get(name, encrypt), on any name.                      *)
(***************************************************************************)
GetCall ==
  /\ gcall.kind = "none"
  /\ \E name \in Names, encrypt \in BOOLEAN :
       gcall' = [name |-> name, encrypt |-> encrypt,
                 kind |-> Get(name, encrypt).kind,
                 class |-> Get(name, encrypt).class]
  /\ UNCHANGED <<cipher, ret, hist, saved, ed, sch>>

NextGet == GetCall

SpecGet == Init /\ [][NextGet]_vars

(***************************************************************************)
(* SpecEd: an EdDSA engine, on a curve with or without built-in context.   *)
(* It signs and verifies what it signed, or verifies any arguments.        *)
(***************************************************************************)
EdMsgs == {<<0>>, <<1>>}
EdSecrets == {<<s>> : s \in 0 .. 3}
EdPhs == {PhNull, 0, 1}
EdCtxs == {EdNull, EMPTY, <<1>>}
\* Signatures and keys of the right length, and of wrong lengths.
EdSigs ==
  {<<r, s>> : r \in EdByte, s \in EdByte} \cup {EMPTY, <<2>>, <<2, 1, 0>>}
EdKeys == {<<k>> : k \in EdByte} \cup {EMPTY, <<2, 0>>}

InitEd ==
  /\ cipher = Construct("ecb", TRUE)
  /\ ret = Ok("new", EMPTY)
  /\ hist = NoHist
  /\ saved = NoSaved
  /\ gcall = NoCall
  /\ sch = NoSchnorr
  /\ ed \in {[NoEd EXCEPT !.context = c] : c \in BOOLEAN}

\* Neither engine has been called.
NoCallYet ==
  /\ ed.sgn.op = "none" /\ ed.ver.op = "none" /\ ed.bat.op = "none"
  /\ ed.twk.op = "none"
  /\ sch = NoSchnorr

\* sign(msg, secret, ph, ctx), drawing the blinding factor b.
EdDoSign ==
  /\ NoCallYet
  /\ \E msg \in EdMsgs, secret \in EdSecrets, ph \in EdPhs, ctx \in EdCtxs,
        b \in 1 .. (EdN - 1) :
       \E r \in {EdSign(ed.context, msg, secret, ph, ctx, b)} :
         ed' = [ed EXCEPT !.sgn = [op |-> "sign", msg |-> msg, secret |-> secret,
                                   ph |-> ph, ctx |-> ctx, b |-> b,
                                   kind |-> r.kind, sig |-> r.sig]]
  /\ UNCHANGED <<cipher, ret, hist, saved, gcall, sch>>

\* A signature with S replaced by S + n.
PlusN(sig) == <<sig[1], sig[2] + EdN>>

\* The step of a call verify(msg, sig, key, ph, ctx).
VerifyStep(msg, sig, key, ph, ctx) ==
  \E r \in {EdVerify(ed.context, msg, sig, key, ph, ctx)} :
    ed' = [ed EXCEPT !.ver = [op |-> "verify", msg |-> msg, sig |-> sig,
                              key |-> key, ph |-> ph, ctx |-> ctx,
                              kind |-> r.kind, val |-> r.val]]

\* verify() of the signature sign() returned, or of that signature with
\* S + n for S, with the signer's public key, message, ph and ctx.
EdVerifySigned ==
  /\ ed.sgn.kind = "ok" /\ ed.ver.op = "none"
  /\ \E sig \in {ed.sgn.sig, PlusN(ed.sgn.sig)} :
       VerifyStep(ed.sgn.msg, sig, PublicKeyCreate(ed.sgn.secret),
                  ed.sgn.ph, ed.sgn.ctx)
  /\ UNCHANGED <<cipher, ret, hist, saved, gcall, sch>>

\* verify() of any arguments.
EdVerifyAny ==
  /\ NoCallYet
  /\ \E msg \in EdMsgs, sig \in EdSigs, key \in EdKeys, ph \in EdPhs,
        ctx \in EdCtxs :
       VerifyStep(msg, sig, key, ph, ctx)
  /\ UNCHANGED <<cipher, ret, hist, saved, gcall, sch>>

\* The step of a call batchVerify(batch, ph, ctx) whose BN.random calls
\* return the values of rnd.
BatchStep(batch, ph, ctx, rnd) ==
  \E r \in {EdBatchVerify(ed.context, batch, ph, ctx, rnd)} :
    ed' = [ed EXCEPT !.bat = [op |-> "batch", batch |-> batch, ph |-> ph,
                              ctx |-> ctx, rnd |-> rnd, kind |-> r.kind,
                              val |-> r.val, draws |-> r.draws,
                              muls |-> r.muls]]

\* batchVerify() of the one item [msg, sig, key] that verify() was just
\* given, with the same ph and ctx.
EdBatchOfVerified ==
  /\ ed.ver.op = "verify" /\ ed.bat.op = "none"
  /\ BatchStep(<<Entry(ed.ver.msg, ed.ver.sig, ed.ver.key)>>,
               ed.ver.ph, ed.ver.ctx, <<0>>)
  /\ UNCHANGED <<cipher, ret, hist, saved, gcall, sch>>

\* Most items of a batch.
MaxBatch == 2

\* The item an honest signer of msg with secret makes, if sign() returns.
SignedEntries(context, msg, secret, ph, ctx) ==
  LET r == EdSign(context, msg, secret, ph, ctx, 1)
  IN IF r.kind = "ok"
     THEN {Entry(msg, r.sig, PublicKeyCreate(secret))}
     ELSE {}

\* Items of a batch: honest ones, and ones of wrong shape, wrong length,
\* with an R that decodes to no point, with S >= n, with a wrong S.
EdEntries(context, ph, ctx) ==
  SignedEntries(context, <<0>>, <<0>>, ph, ctx)
    \cup SignedEntries(context, <<1>>, <<1>>, ph, ctx)
    \cup {Malformed,
          Entry(<<0>>, <<2>>, <<0>>),
          Entry(<<0>>, <<2, 1>>, EMPTY),
          Entry(<<0>>, <<12, 1>>, <<0>>),
          Entry(<<0>>, <<2, 7>>, <<2>>),
          Entry(<<1>>, <<2, 1>>, <<3>>)}

RECURSIVE BatchesUpTo(_, _)
\* The batches of at most n items of E.
BatchesUpTo(E, n) ==
  IF n = 0 THEN {<<>>}
  ELSE LET s == BatchesUpTo(E, n - 1)
       IN s \cup {Append(x, e) : x \in {y \in s : Len(y) = n - 1}, e \in E}

\* batchVerify() of any batch; every BN.random call returns a.
EdBatchMany ==
  /\ NoCallYet
  /\ \E ph \in EdPhs, ctx \in EdCtxs, a \in 1 .. (EdN - 1) :
       \E batch \in BatchesUpTo(EdEntries(ed.context, ph, ctx), MaxBatch) :
         BatchStep(batch, ph, ctx, [i \in 1 .. Len(batch) |-> a])
  /\ UNCHANGED <<cipher, ret, hist, saved, gcall, sch>>

\* scalarTweakAdd(scalar, tweak), publicKeyFromScalar() of what it returned,
\* and publicKeyTweakAdd(publicKeyFromScalar(scalar), tweak).
EdTweakAdd ==
  /\ NoCallYet
  /\ \E a \in EdByte, t \in EdByte :
       \E r \in {ScalarTweakAdd(<<a>>, <<t>>)},
          q \in {PublicKeyTweakAdd(PublicKeyFromScalar(<<a>>), <<t>>)} :
         ed' = [ed EXCEPT !.twk =
                  [op |-> "tweakAdd", scalar |-> <<a>>, tweak |-> <<t>>,
                   kind |-> r.kind, val |-> r.val,
                   pub |-> IF r.kind = "ok" THEN PublicKeyFromScalar(r.val)
                           ELSE EMPTY,
                   tkind |-> q.kind, tpub |-> q.val]]
  /\ UNCHANGED <<cipher, ret, hist, saved, gcall, sch>>

NextEd ==
  \/ EdDoSign \/ EdVerifySigned \/ EdVerifyAny \/ EdBatchOfVerified
  \/ EdBatchMany \/ EdTweakAdd

SpecEd == InitEd /\ [][NextEd]_vars

(***************************************************************************)
(* SpecSig: the EdDSA engine and a Schnorr engine. The Schnorr engine      *)
(* signs and verifies what it signed, or verifies any arguments or batch.  *)
(***************************************************************************)
SchMsgs == {<<0>>, <<1>>}
SchSecrets == {<<k>> : k \in SchByte}
\* Messages, signatures and keys of the right length, and of wrong lengths.
SchAnyMsgs == SchMsgs \cup {EMPTY}
SchSigs ==
  {<<r, s>> : r \in SchByte, s \in SchByte} \cup {<<2>>, <<2, 1, 0>>}
SchKeys == {<<f, x>> : f \in {2, 3, 4}, x \in SchByte} \cup {EMPTY, <<2>>}

\* sign(msg, key), drawing the blinding factor b.
SchDoSign ==
  /\ NoCallYet
  /\ \E msg \in SchMsgs, key \in SchSecrets, b \in 1 .. (SchN - 1) :
       \E r \in {SchSign(msg, key, b)} :
         sch' = [sch EXCEPT !.sgn = [op |-> "sign", msg |-> msg, key |-> key,
                                     b |-> b, kind |-> r.kind, sig |-> r.sig,
                                     kp |-> r.kp, k |-> r.k]]
  /\ UNCHANGED <<cipher, ret, hist, saved, gcall, ed>>

\* The step of a call verify(msg, sig, key).
SchVerifyStep(msg, sig, key) ==
  \E r \in {SchVerify(msg, sig, key)} :
    sch' = [sch EXCEPT !.ver = [op |-> "verify", msg |-> msg, sig |-> sig,
                                key |-> key, kind |-> r.kind, val |-> r.val,
                                R |-> r.R]]

\* The public key of a private key: encode([a]G).
SchPublicKey(key) == WEncode(WMul(SchG, DecodeScalar(key)))

\* verify() of the signature sign() returned, with the signer's public key.
SchVerifySigned ==
  /\ sch.sgn.kind = "ok" /\ sch.ver.op = "none"
  /\ SchVerifyStep(sch.sgn.msg, sch.sgn.sig, SchPublicKey(sch.sgn.key))
  /\ UNCHANGED <<cipher, ret, hist, saved, gcall, ed>>

\* verify() of any arguments.
SchVerifyAny ==
  /\ NoCallYet
  /\ \E msg \in SchAnyMsgs, sig \in SchSigs, key \in SchKeys :
       SchVerifyStep(msg, sig, key)
  /\ UNCHANGED <<cipher, ret, hist, saved, gcall, ed>>

\* The item an honest signer of msg with key makes, if sign() returns.
SchSignedEntries(msg, key) ==
  LET r == SchSign(msg, key, 1)
  IN IF r.kind = "ok" THEN {Entry(msg, r.sig, SchPublicKey(key))} ELSE {}

\* Items of a batch: honest ones, and ones of wrong shape, wrong length,
\* with a key that decodes to no point, with r >= p, with S >= n, with an r
\* that is no x coordinate, with a wrong S.
SchEntries ==
  SchSignedEntries(<<0>>, <<1>>) \cup SchSignedEntries(<<1>>, <<5>>)
    \cup {Malformed,
          Entry(EMPTY, <<1, 1>>, <<2, 1>>),
          Entry(<<0>>, <<1>>, <<2, 1>>),
          Entry(<<0>>, <<1, 1>>, <<4, 1>>),
          Entry(<<0>>, <<9, 1>>, <<2, 1>>),
          Entry(<<0>>, <<1, 14>>, <<2, 1>>),
          Entry(<<1>>, <<1, 1>>, <<3, 1>>)}

\* batchVerify() of any batch; every BN.random call returns a.
SchBatchMany ==
  /\ NoCallYet
  /\ \E a \in 1 .. (SchN - 1), batch \in BatchesUpTo(SchEntries, MaxBatch) :
       \E r \in {SchBatchVerify(batch, [i \in 1 .. Len(batch) |-> a])} :
         sch' = [sch EXCEPT !.bat = [op |-> "batch", batch |-> batch,
                                     rnd |-> [i \in 1 .. Len(batch) |-> a],
                                     kind |-> r.kind, val |-> r.val,
                                     draws |-> r.draws, muls |-> r.muls]]
  /\ UNCHANGED <<cipher, ret, hist, saved, gcall, ed>>

NextSig ==
  \/ EdDoSign \/ EdVerifySigned \/ EdVerifyAny \/ EdBatchOfVerified
  \/ EdBatchMany \/ EdTweakAdd
  \/ SchDoSign \/ SchVerifySigned \/ SchVerifyAny \/ SchBatchMany

SpecSig == InitEd /\ [][NextSig]_vars

(***************************************************************************)
(* Claims about the mode objects.                                          *)
(***************************************************************************)
\* The decipher was given the whole saved ciphertext and final() was called.
Decrypted == saved.on /\ hist.done /\ hist.inp = saved.ct

\* C1: for ECB and CBC, whatever the pieces the plaintext was given to the
\* cipher in and the ciphertext to the decipher in, the decipher's outputs,
\* final() included, are the plaintext.
C1_RoundTripPadded ==
  (Decrypted /\ saved.mode \in {"ecb", "cbc"})
    => (ret.kind = "ok" /\ hist.outp = saved.pt)

\* C2: for CTR, CFB and OFB, whatever the pieces the plaintext was given to
\* the cipher in and the ciphertext to the decipher in, the decipher's
\* outputs, final() included, are the plaintext.
C2_RoundTripStream ==
  (Decrypted /\ saved.mode \in {"ctr", "cfb", "ofb"})
    => (ret.kind = "ok" /\ hist.outp = saved.pt)

\* ceil((L + 1) / bs) * bs for ECB and CBC, L for CTR, CFB and OFB.
CiphertextLength(mode, L) ==
  IF mode \in {"ecb", "cbc"} THEN ((L + BS) \div BS) * BS ELSE L

\* C3: after init(), any update() calls and final() on an encrypting object,
\* the bytes returned number ceil((L + 1) / bs) * bs for ECB and CBC and L
\* for CTR, CFB and OFB, L being the number of bytes given to update().
C3_CiphertextLength ==
  (hist.done /\ hist.clean /\ cipher.encrypt /\ ret.op = "final" /\ ret.kind = "ok")
    => hist.olen = CiphertextLength(cipher.mode, Len(hist.inp))

\* C4: update() and final() raise 'Cipher not initialized.' and change
\* nothing of the object whenever no init() has succeeded since the object
\* was made or since its last final().
C4_LifecycleGuard ==
  [][(ret'.op \in {"update", "final"} /\ ~hist.initOk)
       => (ret'.kind = "err" /\ ret'.msg = NotInitialized /\ cipher' = cipher)]_vars

\* C5: every final() on an object with bpos # -1, returning or raising,
\* leaves ctx destroyed by one more ctx.destroy(), the block buffer all
\* zero, bpos = -1 and no held-back block.
C5_FinalResets ==
  [][(ret'.op = "final" /\ cipher.bpos # -1)
       => /\ cipher'.ctxKey = NoKey
          /\ cipher'.destroys = cipher.destroys + 1
          /\ cipher'.block = Zeros(BS)
          /\ cipher'.bpos = -1
          /\ cipher'.last = EMPTY]_vars

\* final() raised a bad-decrypt error and the object is reset all the same.
C5_Witness ==
  /\ ret.op = "final" /\ ret.kind = "err" /\ ret.msg = BadPadding
  /\ cipher.bpos = -1 /\ cipher.destroys = 1 /\ cipher.block = Zeros(BS)
  /\ cipher.last = EMPTY /\ cipher.ctxKey = NoKey

\* The block the padding decipher holds back: the last bs bytes of last.
HeldBack(o) == SubSeq(o.last, Len(o.last) - BS + 1, Len(o.last))

\* The PKCS#7 condition of C6 on an object: no block held back, or
\* bpos # 0, or the last byte p of the block is 0 or above bs, or one of
\* its last p bytes is not p.
BadDecryptCase(o) ==
  \/ Len(o.last) = 0
  \/ o.bpos # 0
  \/ LET blk == HeldBack(o)
         p   == blk[BS]
     IN \/ p = 0
        \/ p > BS
        \/ \E i \in (BS - p + 1) .. BS : blk[i] # p

\* C6: final() of an ECB/CBC decipher raises a bad-decrypt error exactly
\* in the cases of BadDecryptCase and returns the first bs - p bytes of the
\* held-back block otherwise.
C6_PaddingCheck ==
  [][(ret'.op = "final" /\ cipher.padding /\ cipher.bpos # -1)
       => IF BadDecryptCase(cipher)
          THEN ret'.kind = "err" /\ ret'.msg \in BadDecrypt
          ELSE /\ ret'.kind = "ok"
               /\ ret'.val = SubSeq(HeldBack(cipher), 1, BS - HeldBack(cipher)[BS])]_vars

\* final() of a decipher returned the empty result of a block of padding.
C6_Witness ==
  /\ cipher.padding /\ ret.op = "final" /\ ret.kind = "ok" /\ ret.val = EMPTY
  /\ hist.clean /\ Len(hist.inp) = BS

\* The block a padding decipher holds back, or nothing when last is empty.
HeldOrNone(o) == IF Len(o.last) < BS THEN EMPTY ELSE HeldBack(o)

\* C16: an update() of an initialized padding decipher that completes m
\* blocks returns the block held back so far followed by the first m - 1
\* of the new blocks and holds back the last new block; when it completes
\* no block (m = 0) it returns nothing and the held-back block stays.
C16_HeldBackProtocol ==
  [][(/\ ret'.op = "update" /\ ret'.kind = "ok"
      /\ cipher.padding /\ hist.initOk /\ cipher.bpos # -1)
       => LET ilen == Len(hist'.inp) - Len(hist.inp)
              m == (cipher.bpos + ilen) \div BS
              held == HeldOrNone(cipher)
          IN IF m = 0
             THEN ret'.val = EMPTY /\ HeldOrNone(cipher') = held
             ELSE /\ Len(ret'.val) = Len(held) + (m - 1) * BS
                  /\ SubSeq(ret'.val, 1, Len(held)) = held
                  /\ Len(HeldOrNone(cipher')) = BS]_vars

\* The counter of the j-th block since init(): (IV + j) mod 2^(8*bs), as a
\* big-endian block, and the key stream block made from it.
CounterAt(j) == IntToBlock((BlockToInt(hist.iv, BS) + j) % BlockCount)
KeyStreamAt(j) == CtxEncrypt(hist.key, CounterAt(j))

\* C17: on an initialized CTR object that has taken j0 whole blocks, an
\* update() that completes m blocks writes, for each k < m, block j0 + k of
\* the input XORed with the encryption of (IV + j0 + k) mod 2^(8*bs) and
\* leaves the counter at (IV + j0 + m) mod 2^(8*bs); final() returns the
\* buffered bytes XORed with the encryption of (IV + j0) mod 2^(8*bs).
C17_CounterArithmetic ==
  [][(/\ cipher.mode = "ctr" /\ hist.initOk /\ cipher.bpos # -1
      /\ ret'.kind = "ok")
       => LET j0 == Len(hist.inp) \div BS
          IN IF ret'.op = "update"
             THEN LET m == Len(hist'.inp) \div BS - j0
                  IN /\ cipher'.ctr = CounterAt(j0 + m)
                     /\ cipher.ctr = CounterAt(j0)
                     /\ \A k \in 0 .. m - 1 :
                          SubSeq(ret'.val, k * BS + 1, (k + 1) * BS)
                            = XorBlock(SubSeq(hist'.inp, (j0 + k) * BS + 1,
                                              (j0 + k + 1) * BS),
                                       KeyStreamAt(j0 + k))
             ELSE /\ ret'.op = "final"
                  /\ cipher.ctr = CounterAt(j0)
                  /\ ret'.val = [i \in 1 .. Len(hist.inp) % BS |->
                                   Xor(hist.inp[j0 * BS + i], KeyStreamAt(j0)[i])]]_vars

\* final() of a CTR object returned the partial block that follows a whole
\* block, after the counter wrapped around from all ones to all zeros.
C17_Witness ==
  /\ cipher.mode = "ctr" /\ ret.op = "final" /\ ret.kind = "ok" /\ hist.done
  /\ hist.iv = <<3, 3>> /\ Len(hist.inp) = BS + 1 /\ Len(ret.val) = 1

\* C19: an init() that raises on an object with bpos = -1 leaves bpos = -1.
C19_FailedInitLeavesUninitialized ==
  [][(ret'.op = "init" /\ ret'.kind = "err" /\ cipher.bpos = -1)
       => cipher'.bpos = -1]_vars

(***************************************************************************)
(* Claims about get().                                                     *)
(***************************************************************************)
\* C7 as stated: get() returns the class of the mode for every spelling of
\* the five names in any mix of cases and raises for every other name.
C7_CaseInsensitive ==
  gcall.kind # "none"
    => IF LowerCase(gcall.name) \in ModeNames
       THEN /\ gcall.kind = "ok"
            /\ gcall.class = ClassOf(ModeOf(LowerCase(gcall.name)), gcall.encrypt)
       ELSE gcall.kind = "err"

\* C7 as amended: get() returns the class of the mode for the five names
\* written all in lower case or all in upper case, and raises for every
\* other name, a mode name in mixed case included.
C7_TwoSpellings ==
  gcall.kind # "none"
    => IF /\ LowerCase(gcall.name) \in ModeNames
          /\ gcall.name \in {LowerCase(gcall.name), UpperCase(gcall.name)}
       THEN /\ gcall.kind = "ok"
            /\ gcall.class = ClassOf(ModeOf(LowerCase(gcall.name)), gcall.encrypt)
       ELSE gcall.kind = "err"

\* get() raised for a mode name in mixed case.
C7_Witness ==
  /\ gcall.name = <<"C", "b", "c">> /\ gcall.kind = "err"

(***************************************************************************)
(* Claims about the EdDSA engine.                                          *)
(***************************************************************************)
\* verify()'s precondition on ph and ctx: a context needs the pre-hash flag
\* on a curve without built-in context.
Permitted(context, ph, ctx) == context \/ ctx = EdNull \/ ph # PhNull

\* verify() was called on what sign() returned, with the signer's public
\* key and the same message, ph and ctx.
VerifiedSigned ==
  /\ ed.sgn.kind = "ok" /\ ed.ver.op = "verify"
  /\ ed.ver.msg = ed.sgn.msg /\ ed.ver.sig = ed.sgn.sig
  /\ ed.ver.key = PublicKeyCreate(ed.sgn.secret)
  /\ ed.ver.ph = ed.sgn.ph /\ ed.ver.ctx = ed.sgn.ctx

\* C8: verify(msg, sign(msg, secret, ph, ctx), publicKeyCreate(secret), ph,
\* ctx) returns true, whatever blinding factor sign() drew.
C8_SignVerify ==
  VerifiedSigned => (ed.ver.kind = "ok" /\ ed.ver.val = TRUE)

\* A signature made with a context and a blinding factor other than 1
\* verified.
C8_Witness ==
  /\ VerifiedSigned /\ ed.ver.val = TRUE
  /\ ed.sgn.ctx = <<1>> /\ ed.sgn.b = 3

\* C9: verify() returns false for every signature whose second half
\* decodes to an S >= n, whatever R, the key and the message (ph and ctx
\* being arguments verify() accepts).
C9_RejectsLargeS ==
  (/\ ed.ver.op = "verify"
   /\ Permitted(ed.context, ed.ver.ph, ed.ver.ctx)
   /\ Len(ed.ver.sig) = 2 * EdSize
   /\ DecodeInt(SubSeq(ed.ver.sig, EdSize + 1, 2 * EdSize)) >= EdN)
    => (ed.ver.kind = "ok" /\ ed.ver.val = FALSE)

\* verify() rejected the signature sign() returned with S + n for S.
C9_Witness ==
  /\ ed.sgn.kind = "ok" /\ ed.ver.op = "verify"
  /\ ed.ver.sig = PlusN(ed.sgn.sig) /\ Len(ed.ver.sig) = Len(ed.sgn.sig)
  /\ ed.ver.key = PublicKeyCreate(ed.sgn.secret) /\ ed.ver.msg = ed.sgn.msg
  /\ ed.ver.kind = "ok" /\ ed.ver.val = FALSE

WrongLengths == Len(ed.ver.sig) # 2 * EdSize \/ Len(ed.ver.key) # EdSize

\* C10 as stated: whenever sig or key has the wrong length, verify()
\* returns false without raising, whatever ph and ctx are.
C10_LengthsFirst ==
  (ed.ver.op = "verify" /\ WrongLengths)
    => (ed.ver.kind = "ok" /\ ed.ver.val = FALSE)

\* C10 as amended: verify() raises, whatever the lengths, when ctx is given
\* without ph on a curve without built-in context (that assertion comes
\* before the length checks); for every other ph and ctx it returns false
\* without raising whenever sig or key has the wrong length.
C10_LengthsAfterAssert ==
  ed.ver.op = "verify"
    => IF Permitted(ed.context, ed.ver.ph, ed.ver.ctx)
       THEN WrongLengths => (ed.ver.kind = "ok" /\ ed.ver.val = FALSE)
       ELSE ed.ver.kind = "err"

\* verify() returned false for a signature that is too long, given with a
\* context and a pre-hash flag.
C10_Witness ==
  /\ ed.ver.op = "verify" /\ Len(ed.ver.sig) = 3 /\ Len(ed.ver.key) = EdSize
  /\ ~ed.context /\ ed.ver.ctx = <<1>> /\ ed.ver.ph = 1
  /\ ed.ver.kind = "ok" /\ ed.ver.val = FALSE

\* batchVerify() was given the one item verify() was given.
SingleBatch ==
  /\ ed.ver.op = "verify" /\ ed.bat.op = "batch"
  /\ ed.bat.batch = <<Entry(ed.ver.msg, ed.ver.sig, ed.ver.key)>>
  /\ ed.bat.ph = ed.ver.ph /\ ed.bat.ctx = ed.ver.ctx

\* C11: batchVerify([[msg, sig, key]], ph, ctx) returns the boolean that
\* verify(msg, sig, key, ph, ctx) returns, for every msg, sig and key,
\* points with a small-order component included.
C11_SingleBatchIsVerify ==
  (SingleBatch /\ ed.ver.kind = "ok")
    => (ed.bat.kind = "ok" /\ ed.bat.val = ed.ver.val)

\* Item i of the batch is structurally wrong: a signature or key of the
\* wrong length, an R or key that decodes to no point, or S >= n.
BadItem(e) ==
  \/ Len(e.sig) # 2 * EdSize \/ Len(e.key) # EdSize
  \/ ~DecodePoint(SubSeq(e.sig, 1, EdSize)).ok \/ ~DecodePoint(e.key).ok
  \/ DecodeInt(SubSeq(e.sig, EdSize + 1, 2 * EdSize)) >= EdN

\* The first item that is no triple comes before every item of a wrong
\* length.
RaisesOnShape(batch) ==
  \E i \in 1 .. Len(batch) :
    /\ batch[i].shape # "triple"
    /\ \A j \in 1 .. (i - 1) :
         /\ batch[j].shape = "triple"
         /\ Len(batch[j].sig) = 2 * EdSize /\ Len(batch[j].key) = EdSize

\* C13 as stated: batchVerify() never raises, whatever the batch, ph and
\* ctx, and returns false when an item is structurally wrong or malformed.
C13_BatchNeverRaises ==
  ed.bat.op = "batch"
    => /\ ed.bat.kind = "ok"
       /\ (\E i \in 1 .. Len(ed.bat.batch) :
             ed.bat.batch[i].shape # "triple" \/ BadItem(ed.bat.batch[i]))
            => ed.bat.val = FALSE

\* C13 as amended: batchVerify() raises when ctx is given without ph on a
\* curve without built-in context, and when it meets an item that is not
\* [msg, sig, key] before any item of a wrong length; otherwise it does not
\* raise, and it returns false when an item has a wrong length, an R or key
\* that decodes to no point, or S >= n.
C13_BatchRaisesOnlyOnMisuse ==
  ed.bat.op = "batch"
    => IF ~Permitted(ed.context, ed.bat.ph, ed.bat.ctx)
          \/ RaisesOnShape(ed.bat.batch)
       THEN ed.bat.kind = "err"
       ELSE /\ ed.bat.kind = "ok"
            /\ (\E i \in 1 .. Len(ed.bat.batch) :
                  ed.bat.batch[i].shape # "triple" \/ BadItem(ed.bat.batch[i]))
                 => ed.bat.val = FALSE

\* batchVerify() returned false for a batch whose second item has an R that
\* decodes to no point, after an honest first item.
C13_Witness ==
  /\ ed.bat.op = "batch" /\ Len(ed.bat.batch) = 2
  /\ ~BadItem(ed.bat.batch[1]) /\ ed.bat.batch[2].shape = "triple"
  /\ Len(ed.bat.batch[2].sig) = 2 * EdSize
  /\ ~DecodePoint(SubSeq(ed.bat.batch[2].sig, 1, EdSize)).ok
  /\ ed.bat.kind = "ok" /\ ed.bat.val = FALSE /\ ed.bat.draws = 0

C12_WitnessEd ==
  /\ ed.bat.op = "batch" /\ ed.bat.batch = <<>> /\ ed.bat.ctx = <<1>>
  /\ ed.bat.kind = "ok" /\ ed.bat.val = TRUE

\* C14 as stated: for every scalar a and every tweak t # 0 (mod n),
\* scalarTweakAdd(a, t) returns, and publicKeyFromScalar of what it returns
\* is publicKeyTweakAdd(publicKeyFromScalar(a), t).
C14_TweakAddAlways ==
  (ed.twk.op = "tweakAdd" /\ DecodeScalar(ed.twk.tweak) % EdN # 0)
    => (ed.twk.kind = "ok" /\ ed.twk.tkind = "ok" /\ ed.twk.pub = ed.twk.tpub)

\* C14 as amended: scalarTweakAdd(a, t) raises when (a + t) mod n = 0;
\* for every other a and t (t = 0 mod n included) it returns, and
\* publicKeyFromScalar of what it returns is
\* publicKeyTweakAdd(publicKeyFromScalar(a), t).
C14_TweakAddUnlessZero ==
  ed.twk.op = "tweakAdd"
    => IF (DecodeScalar(ed.twk.scalar) + DecodeScalar(ed.twk.tweak)) % EdN = 0
       THEN ed.twk.kind = "err"
       ELSE /\ ed.twk.kind = "ok" /\ ed.twk.tkind = "ok"
            /\ ed.twk.pub = ed.twk.tpub

\* Both sides gave the same key for a scalar and a tweak larger than n.
C14_Witness ==
  /\ ed.twk.op = "tweakAdd" /\ ed.twk.scalar = <<12>> /\ ed.twk.tweak = <<9>>
  /\ ed.twk.kind = "ok" /\ ed.twk.pub = ed.twk.tpub

\* verify() was called on what sign() returned, with encode([a]G).
SchVerifiedSigned ==
  /\ sch.sgn.kind = "ok" /\ sch.ver.op = "verify"
  /\ sch.ver.msg = sch.sgn.msg /\ sch.ver.sig = sch.sgn.sig
  /\ sch.ver.key = SchPublicKey(sch.sgn.key)

\* C15: for every key a in [1, n) and message with k' # 0, sign() negates k
\* exactly when jacobi(y([k']G), p) # 1, the first half of the signature is
\* x([k]G), and verify() of the signature with encode([a]G) returns true:
\* the point it recomputes is not infinity, has jacobi(y) = 1 and that x.
C15_SchnorrRoundTrip ==
  /\ (sch.sgn.op = "sign" /\ Len(sch.sgn.msg) = SchHashSize
      /\ DecodeScalar(sch.sgn.key) \in 1 .. (SchN - 1)
      /\ SchHashInt(sch.sgn.key \o sch.sgn.msg) # 0)
       => /\ sch.sgn.kind = "ok"
          /\ sch.sgn.kp = SchHashInt(sch.sgn.key \o sch.sgn.msg)
          /\ sch.sgn.k = IF Jacobi(WMul(SchG, sch.sgn.kp)[2], SchP) # 1
                          THEN SchN - sch.sgn.kp ELSE sch.sgn.kp
          /\ SubSeq(sch.sgn.sig, 1, SchSize)
               = EncodeInt(WMul(SchG, sch.sgn.k)[1])
  /\ SchVerifiedSigned
       => /\ sch.ver.kind = "ok" /\ sch.ver.val = TRUE
          /\ sch.ver.R # Infinity /\ Jacobi(sch.ver.R[2], SchP) = 1
          /\ sch.ver.R = WMul(SchG, sch.sgn.k)

\* A signature made with a negated k and a blinding factor other than 1
\* verified.
C15_Witness ==
  /\ SchVerifiedSigned /\ sch.ver.val = TRUE
  /\ sch.sgn.k # sch.sgn.kp /\ sch.sgn.b = 5

\* The signature of EdDSA sign() computed without blinding:
\* R || (r + h * a) mod n.
EdUnblinded ==
  LET kn == SplitHash(HashKey(ed.sgn.secret))
      a == DecodeScalar(kn.key)
      r == HashInt(ed.context, ed.sgn.ph, ed.sgn.ctx, kn.nonce \o ed.sgn.msg).val
      R == EncodePoint(PMul(EdG, r))
      A == EncodePoint(PMul(EdG, a))
      h == HashInt(ed.context, ed.sgn.ph, ed.sgn.ctx, R \o A \o ed.sgn.msg).val
  IN R \o EncodeInt((r + h * a) % EdN)

\* The signature of Schnorr sign() computed without blinding:
\* x([k]G) || (k + e * a) mod n.
SchUnblinded ==
  LET a == DecodeScalar(sch.sgn.key)
      Rraw == EncodeInt(WMul(SchG, sch.sgn.k)[1])
      e == SchHashInt(Rraw \o WEncode(WMul(SchG, a)) \o sch.sgn.msg)
  IN Rraw \o EncodeInt((sch.sgn.k + e * a) % SchN)

\* C18: for every blinding factor b in [1, n), the S of EdDSA
\* signWithScalar is (r + h * a) mod n and the S of Schnorr sign is
\* (k + e * a) mod n: the signature is the same whatever b is.
C18_BlindingTransparent ==
  /\ ed.sgn.kind = "ok" => ed.sgn.sig = EdUnblinded
  /\ sch.sgn.kind = "ok" => sch.sgn.sig = SchUnblinded

\* EdDSA sign() returned the unblinded signature with blinding factor 3.
C18_Witness ==
  /\ ed.sgn.kind = "ok" /\ ed.sgn.b = 3 /\ ed.sgn.sig = EdUnblinded
  /\ DecodeInt(SubSeq(ed.sgn.sig, EdSize + 1, 2 * EdSize)) # 0

\* Schnorr sign() returned the unblinded signature with blinding factor 7.
C18_WitnessSchnorr ==
  /\ sch.sgn.kind = "ok" /\ sch.sgn.b = 7 /\ sch.sgn.sig = SchUnblinded

=============================================================================
